---------------------------- MODULE Spec2Model ----------------------------
(***************************************************************************)
(* A model of scripts/update-default-weights.py, the tool that converts a  *)
(* trained weights.json into lua/neural-open/algorithms/                   *)
(* nn_default_weights.lua.                                                 *)
(*                                                                         *)
(* Python values are modelled as follows.  A str is a sequence of          *)
(* one-character strings, so that text the script builds can be compared   *)
(* byte for byte, split into lines and read back by a parser.  A list is a *)
(* sequence.  A number is a record: an int carries its decimal digits, a   *)
(* float carries the shortest digit string and the decimal point position  *)
(* that repr() prints it from.  A dict whose key order matters (the        *)
(* network object) is a sequence of <<key, value>> pairs in input order.   *)
(***************************************************************************)
EXTENDS Integers, Sequences, FiniteSets, TLC

VARIABLES
    pc,            \* position of the run inside main()
    data,          \* what json.load returned
    version,       \* main's local: nn_data["version"]
    network,       \* main's local: nn_data["network"]
    architecture,  \* main's local: result of infer_architecture
    lua_content,   \* main's local: result of generate_lua
    evaluated,     \* history: the steps main has taken, <<step, outcome>>, in order
    stderr,        \* the error reports written to the error stream, in order
    stdout,        \* the lines printed to standard output, in order
    exit_status,   \* the process's exit status, -1 while it runs
    dest,          \* the destination file nn_default_weights.lua
    dest0,         \* history: the destination file before the run
    key_index,     \* main's loop over NETWORK_KEY_ORDER: the next key's index
    fn,            \* function-level specifications: the function applied
    arg,           \* its arguments
    ret,           \* its result, once it has been applied
    loaded         \* what a consumer reads back from the text in ret

mainVars == <<pc, data, version, network, architecture, lua_content,
              evaluated, stderr, stdout, exit_status, dest, dest0,
              key_index>>
fnVars == <<fn, arg, ret, loaded>>
vars == <<pc, data, version, network, architecture, lua_content,
          evaluated, stderr, stdout, exit_status, dest, dest0,
          key_index, fn, arg, ret, loaded>>

(***************************************************************************)
(* Bounds of the model.                                                    *)
(***************************************************************************)
\* longest 1-D array handed to format_array
MaxLen == 3
\* deepest indent_level handed to format_array
MaxIndent == 3
\* most layers in a weights list
MaxLayers == 2
\* most rows in a weight matrix
MaxRows == 3
\* longest row of a weight matrix
MaxCols == 5
\* most layers in the weights list of a document main loads
MaxMainLayers == 2

(***************************************************************************)
(* Text.                                                                   *)
(***************************************************************************)
\* the characters of the string literals the script uses
chars(s) ==
    CASE s = "running_vars" ->
           <<"r", "u", "n", "n", "i", "n", "g", "_", "v", "a", "r", "s">>
      [] s = "running_means" ->
           <<"r", "u", "n", "n", "i", "n", "g", "_", "m", "e", "a", "n", "s">>
      [] s = "weights" ->
           <<"w", "e", "i", "g", "h", "t", "s">>
      [] s = "betas" ->
           <<"b", "e", "t", "a", "s">>
      [] s = "gammas" ->
           <<"g", "a", "m", "m", "a", "s">>
      [] s = "biases" ->
           <<"b", "i", "a", "s", "e", "s">>
      [] s = "--- Default neural network weights for neural-open" ->
           <<"-", "-", "-", " ", "D", "e", "f", "a", "u", "l", "t", " ", "n", "e", "u", "r", "a", "l", " ", "n", "e", "t", "w", "o", "r", "k", " ", "w", "e", "i", "g", "h", "t", "s", " ", "f", "o", "r", " ", "n", "e", "u", "r", "a", "l", "-", "o", "p", "e", "n">>
      [] s = "--- Auto-generated from trained weights - DO NOT EDIT MANUALLY" ->
           <<"-", "-", "-", " ", "A", "u", "t", "o", "-", "g", "e", "n", "e", "r", "a", "t", "e", "d", " ", "f", "r", "o", "m", " ", "t", "r", "a", "i", "n", "e", "d", " ", "w", "e", "i", "g", "h", "t", "s", " ", "-", " ", "D", "O", " ", "N", "O", "T", " ", "E", "D", "I", "T", " ", "M", "A", "N", "U", "A", "L", "L", "Y">>
      [] s = "---" ->
           <<"-", "-", "-">>
      [] s = "--- These weights are used as defaults when no user weights exist." ->
           <<"-", "-", "-", " ", "T", "h", "e", "s", "e", " ", "w", "e", "i", "g", "h", "t", "s", " ", "a", "r", "e", " ", "u", "s", "e", "d", " ", "a", "s", " ", "d", "e", "f", "a", "u", "l", "t", "s", " ", "w", "h", "e", "n", " ", "n", "o", " ", "u", "s", "e", "r", " ", "w", "e", "i", "g", "h", "t", "s", " ", "e", "x", "i", "s", "t", ".">>
      [] s = "--- They represent a pre-trained network that provides good initial file ranking." ->
           <<"-", "-", "-", " ", "T", "h", "e", "y", " ", "r", "e", "p", "r", "e", "s", "e", "n", "t", " ", "a", " ", "p", "r", "e", "-", "t", "r", "a", "i", "n", "e", "d", " ", "n", "e", "t", "w", "o", "r", "k", " ", "t", "h", "a", "t", " ", "p", "r", "o", "v", "i", "d", "e", "s", " ", "g", "o", "o", "d", " ", "i", "n", "i", "t", "i", "a", "l", " ", "f", "i", "l", "e", " ", "r", "a", "n", "k", "i", "n", "g", ".">>
      [] s = "--- Network architecture: " ->
           <<"-", "-", "-", " ", "N", "e", "t", "w", "o", "r", "k", " ", "a", "r", "c", "h", "i", "t", "e", "c", "t", "u", "r", "e", ":", " ">>
      [] s = "--- Training format: " ->
           <<"-", "-", "-", " ", "T", "r", "a", "i", "n", "i", "n", "g", " ", "f", "o", "r", "m", "a", "t", ":", " ">>
      [] s = "2.0-hinge" ->
           <<"2", ".", "0", "-", "h", "i", "n", "g", "e">>
      [] s = "v2.0 pairwise hinge loss" ->
           <<"v", "2", ".", "0", " ", "p", "a", "i", "r", "w", "i", "s", "e", " ", "h", "i", "n", "g", "e", " ", "l", "o", "s", "s">>
      [] s = "return {" ->
           <<"r", "e", "t", "u", "r", "n", " ", "{">>
      [] s = "  version = \"" ->
           <<" ", " ", "v", "e", "r", "s", "i", "o", "n", " ", "=", " ", "\"">>
      [] s = "\"," ->
           <<"\"", ",">>
      [] s = "  network = {" ->
           <<" ", " ", "n", "e", "t", "w", "o", "r", "k", " ", "=", " ", "{">>
      [] s = "    [\"" ->
           <<" ", " ", " ", " ", "[", "\"">>
      [] s = "\"] = " ->
           <<"\"", "]", " ", "=", " ">>
      [] s = "  }," ->
           <<" ", " ", "}", ",">>
      [] s = "}" ->
           <<"}">>
      [] s = " -> " ->
           <<" ", "-", ">", " ">>
      [] s = "" ->
           <<>>
      [] s = "extra" ->
           <<"e", "x", "t", "r", "a">>
      [] s = "version" ->
           <<"v", "e", "r", "s", "i", "o", "n">>
      [] s = "network" ->
           <<"n", "e", "t", "w", "o", "r", "k">>

NL == "\n"

RECURSIVE join(_, _)
\* sep.join(parts)
join(sep, parts) ==
    IF parts = <<>> THEN <<>>
    ELSE IF Len(parts) = 1 THEN parts[1]
    ELSE parts[1] \o sep \o join(sep, Tail(parts))

\* "  " * indent_level
Indent(indent_level) == [i \in 1..(2 * indent_level) |-> " "]

DigitChar(d) == <<"0", "1", "2", "3", "4", "5", "6", "7", "8", "9">>[d + 1]

RECURSIVE NatDigits(_)
\* the decimal digits of a natural number, most significant first
NatDigits(n) ==
    IF n < 10 THEN <<n>> ELSE Append(NatDigits(n \div 10), n % 10)

DigitChars(digits) == [i \in 1..Len(digits) |-> DigitChar(digits[i])]

\* str(n) of a Python int
str(n) ==
    IF n < 0 THEN <<"-">> \o DigitChars(NatDigits(-n))
    ELSE DigitChars(NatDigits(n))

(***************************************************************************)
(* Numbers, as json.load yields them.                                      *)
(***************************************************************************)
\* a Python int with decimal digits ds (no leading zero unless it is 0)
PyInt(neg, ds) == [t |-> "int", neg |-> neg, digits |-> ds, decpt |-> Len(ds)]
\* a Python float whose shortest round-tripping digit string is ds and whose
\* value is 0.d1d2...dn * 10^decpt (zero is digits <<0>>, decpt 1)
PyFloat(neg, ds, decpt) ==
    [t |-> "float", neg |-> neg, digits |-> ds, decpt |-> decpt]

Zeros(n) == [i \in 1..n |-> "0"]

\* repr() of a float: exponent notation when decpt <= -4 or decpt > 16,
\* fixed notation (always with a fractional part) otherwise
FloatRepr(x) ==
    LET ds == DigitChars(x.digits)
        n == Len(ds)
        e == x.decpt - 1
        ed == NatDigits(IF e < 0 THEN -e ELSE e)
        mant == IF n = 1 THEN ds ELSE <<ds[1], ".">> \o SubSeq(ds, 2, n)
        body ==
            IF x.decpt <= -4 \/ x.decpt > 16
            THEN mant \o <<"e", IF e < 0 THEN "-" ELSE "+">>
                      \o (IF Len(ed) = 1 THEN <<"0">> ELSE <<>>)
                      \o DigitChars(ed)
            ELSE IF x.decpt <= 0
            THEN <<"0", ".">> \o Zeros(-x.decpt) \o ds
            ELSE IF x.decpt >= n
            THEN ds \o Zeros(x.decpt - n) \o <<".", "0">>
            ELSE SubSeq(ds, 1, x.decpt) \o <<".">> \o SubSeq(ds, x.decpt + 1, n)
    IN  (IF x.neg THEN <<"-">> ELSE <<>>) \o body

\* repr() of an int
IntRepr(x) == (IF x.neg THEN <<"-">> ELSE <<>>) \o DigitChars(x.digits)

\* format_number(value): repr(value)
format_number(value) ==
    IF value.t = "int" THEN IntRepr(value) ELSE FloatRepr(value)

(***************************************************************************)
(* The formatter.                                                          *)
(***************************************************************************)
\* the mutant of format_array: no single-element special case
format_array_NoSingle(values, indent_level) ==
    join(<<NL>>,
         << <<"{">> >>
         \o [i \in 1..Len(values) |->
                Indent(indent_level + 1) \o format_number(values[i]) \o <<",">>]
         \o << Indent(indent_level) \o <<"}">> >>)

\* format_array(values, indent_level)
format_array(values, indent_level) ==
    LET indent == Indent(indent_level)
        inner_indent == Indent(indent_level + 1)
    IN  IF Len(values) = 1
        THEN <<"{", " ">> \o format_number(values[1]) \o <<" ", "}">>
        ELSE join(<<NL>>,
                  << <<"{">> >>
                  \o [i \in 1..Len(values) |->
                         inner_indent \o format_number(values[i]) \o <<",">>]
                  \o << indent \o <<"}">> >>)

\* format_matrix(matrix, indent_level)
format_matrix(matrix, indent_level) ==
    LET indent == Indent(indent_level)
        inner_indent == Indent(indent_level + 1)
    IN  join(<<NL>>,
             << <<"{">> >>
             \o [i \in 1..Len(matrix) |->
                    inner_indent \o format_array(matrix[i], indent_level + 1)
                                 \o <<",">>]
             \o << indent \o <<"}">> >>)

\* format_network_field(field_data, indent_level)
format_network_field(field_data, indent_level) ==
    LET indent == Indent(indent_level)
        inner_indent == Indent(indent_level + 1)
    IN  join(<<NL>>,
             << <<"{">> >>
             \o [i \in 1..Len(field_data) |->
                    inner_indent \o format_matrix(field_data[i], indent_level + 1)
                                 \o <<",">>]
             \o << indent \o <<"}">> >>)

(***************************************************************************)
(* Dicts that keep their key order: sequences of <<key, value>> pairs.     *)
(***************************************************************************)
\* key in d
HasKey(d, key) == \E i \in 1..Len(d) : d[i][1] = key
\* d[key], for a key that is in d
Get(d, key) == d[CHOOSE i \in 1..Len(d) : d[i][1] = key][2]
\* the keys of d, in d's order
Keys(d) == [i \in 1..Len(d) |-> d[i][1]]

(***************************************************************************)
(* Results of calls that may raise.                                        *)
(***************************************************************************)
Return(v) == [ok |-> TRUE, value |-> v, exc |-> "", msg |-> ""]
Raise(e, m) == [ok |-> FALSE, value |-> <<>>, exc |-> e, msg |-> m]

\* the mutant of NETWORK_KEY_ORDER: the keys in alphabetical order
NETWORK_KEY_ORDER_Sorted ==
    <<"betas", "biases", "gammas", "running_means", "running_vars", "weights">>

NETWORK_KEY_ORDER ==
    <<"running_vars", "running_means", "weights", "betas", "gammas", "biases">>

(***************************************************************************)
(* infer_architecture.                                                     *)
(***************************************************************************)
RECURSIVE ArchLoop(_, _, _)
\* the for loop of infer_architecture from its i-th iteration on; layer[0]
\* of an empty layer raises IndexError
ArchLoop(weights, i, arch) ==
    IF i > Len(weights) THEN Return(arch)
    ELSE IF Len(weights[i]) = 0
    THEN Raise("IndexError", "list index out of range")
    ELSE ArchLoop(weights, i + 1, Append(arch, Len(weights[i][1])))

\* the mutant of infer_architecture: the input size read from the first
\* row's length instead of the first matrix's row count
infer_architecture_FirstRow(weights) ==
    IF Len(weights) = 0 THEN Raise("ValueError", "No weight matrices found")
    ELSE IF Len(weights[1]) = 0
    THEN Raise("IndexError", "list index out of range")
    ELSE ArchLoop(weights, 1, <<Len(weights[1][1])>>)

\* the mutant of infer_architecture: an empty weights list is not an error
\* and gives the architecture [0]
infer_architecture_EmptyOk(weights) ==
    IF Len(weights) = 0 THEN Return(<<0>>)
    ELSE ArchLoop(weights, 1, <<Len(weights[1])>>)

\* infer_architecture(weights)
infer_architecture(weights) ==
    IF Len(weights) = 0 THEN Raise("ValueError", "No weight matrices found")
    ELSE ArchLoop(weights, 1, <<Len(weights[1])>>)

(***************************************************************************)
(* generate_lua.                                                           *)
(***************************************************************************)
\* version_labels.get(version, version)
VersionLabel(v) ==
    IF v = chars("2.0-hinge") THEN chars("v2.0 pairwise hinge loss") ELSE v

\* the lines generate_lua appends before the network fields
HeaderLines(v, arch) ==
    << chars("--- Default neural network weights for neural-open"),
       chars("--- Auto-generated from trained weights - DO NOT EDIT MANUALLY"),
       chars("---"),
       chars("--- These weights are used as defaults when no user weights exist."),
       chars("--- They represent a pre-trained network that provides good initial file ranking."),
       chars("---"),
       chars("--- Network architecture: ")
           \o join(chars(" -> "), [i \in 1..Len(arch) |-> str(arch[i])]),
       chars("--- Training format: ") \o VersionLabel(v),
       chars(""),
       chars("return {"),
       chars("  version = \"") \o v \o chars("\","),
       chars("  network = {") >>

\* the line generate_lua appends for one network field
FieldLine(net, key) ==
    chars("    [\"") \o chars(key) \o chars("\"] = ")
        \o format_network_field(Get(net, key), 2) \o <<",">>

\* the mutant of generate_lua: the fields emitted in the input's key order
\* (for key in network) instead of NETWORK_KEY_ORDER
generate_lua_InputOrder(v, net, arch) ==
    join(<<NL>>,
         HeaderLines(v, arch)
         \o [i \in 1..Len(net) |-> FieldLine(net, net[i][1])]
         \o << chars("  },"), chars("}"), chars("") >>)

\* generate_lua(version, network, architecture)
generate_lua(v, net, arch) ==
    join(<<NL>>,
         HeaderLines(v, arch)
         \o [i \in 1..Len(NETWORK_KEY_ORDER) |->
                FieldLine(net, NETWORK_KEY_ORDER[i])]
         \o << chars("  },"), chars("}"), chars("") >>)

(***************************************************************************)
(* Reading text back: lines.                                               *)
(***************************************************************************)
\* text.split("\n"): the pieces of text between its line breaks
Lines(text) ==
    LET breaks == SelectSeq([i \in 1..Len(text) |-> i],
                            LAMBDA i : text[i] = NL)
        n == Len(breaks)
    IN  [j \in 1..(n + 1) |->
            SubSeq(text,
                   IF j = 1 THEN 1 ELSE breaks[j - 1] + 1,
                   IF j = n + 1 THEN Len(text) ELSE breaks[j] - 1)]

\* how many times character c occurs in text
Count(text, c) == Cardinality({i \in 1..Len(text) : text[i] = c})

StartsWith(text, prefix) ==
    Len(text) >= Len(prefix) /\ SubSeq(text, 1, Len(prefix)) = prefix

(***************************************************************************)
(* Inputs.                                                                 *)
(***************************************************************************)
\* 0, -3, 12, 0.5, -1.25, 1e-05, 1.5e+300, -0.0
Numbers ==
    { PyInt(FALSE, <<0>>), PyInt(TRUE, <<3>>), PyInt(FALSE, <<1, 2>>),
      PyFloat(FALSE, <<5>>, 0), PyFloat(TRUE, <<1, 2, 5>>, 1),
      PyFloat(FALSE, <<1>>, -4), PyFloat(FALSE, <<1, 5>>, 301),
      PyFloat(TRUE, <<0>>, 1) }

SeqsUpTo(S, n) == UNION {[1..k -> S] : k \in 0..n}

\* a matrix of r rows whose first row has c values and whose other rows have
\* c values too, or c + 1 when it is ragged
ShapedMatrix(r, c, ragged) ==
    [i \in 1..r |->
        [j \in 1..(IF i > 1 /\ ragged THEN c + 1 ELSE c) |-> PyInt(FALSE, <<0>>)]]

Matrices ==
    {ShapedMatrix(0, 0, FALSE)}
    \cup {ShapedMatrix(r, c, FALSE) : r \in 1..MaxRows, c \in 0..MaxCols}
    \cup {ShapedMatrix(r, c, TRUE) : r \in 2..MaxRows, c \in 0..MaxCols}

WeightLists == SeqsUpTo(Matrices, MaxLayers)

IsRectangular(matrix) ==
    \A i \in 1..Len(matrix) : Len(matrix[i]) = Len(matrix[1])

(***************************************************************************)
(* The state of main when only a function is applied.                      *)
(***************************************************************************)
NoFile == [exists |-> FALSE, content |-> <<>>]

MainIdle ==
    /\ pc = "idle"
    /\ data = <<>>
    /\ version = <<>>
    /\ network = <<>>
    /\ architecture = <<>>
    /\ lua_content = <<>>
    /\ evaluated = <<>>
    /\ stderr = <<>>
    /\ stdout = <<>>
    /\ exit_status = -1
    /\ dest = NoFile
    /\ dest0 = NoFile
    /\ key_index = 1

NotCalled == [done |-> FALSE, value |-> <<>>]
Called(v) == [done |-> TRUE, value |-> v]

(***************************************************************************)
(* format_array applied to every array of at most MaxLen numbers.          *)
(***************************************************************************)
InitArray ==
    /\ MainIdle
    /\ fn = "format_array"
    /\ arg \in [values : SeqsUpTo(Numbers, MaxLen), indent_level : 0..MaxIndent]
    /\ ret = NotCalled
    /\ loaded = NotCalled

CallFormatArray ==
    /\ fn = "format_array"
    /\ ~ret.done
    /\ ret' = Called(format_array(arg.values, arg.indent_level))
    /\ UNCHANGED <<fn, arg, loaded>>
    /\ UNCHANGED mainVars

NextArray == CallFormatArray

SpecArray == InitArray /\ [][NextArray]_vars

\* C7: format_array of a 1-element array is the single line "{ x }" at every
\* indentation level; of an array of N /= 1 elements (N = 0 included) it is
\* exactly N + 2 lines: "{", one line per element in input order, indented
\* one level deeper than indent_level and followed by exactly one comma, and
\* "}" indented at indent_level.
C7_FormatArrayShape ==
    (fn = "format_array" /\ ret.done) =>
        LET values == arg.values
            N == Len(values)
            ls == Lines(ret.value)
        IN  IF N = 1
            THEN /\ Len(ls) = 1
                 /\ Count(ret.value, ",") = 0
                 /\ ret.value = <<"{", " ">> \o format_number(values[1])
                                            \o <<" ", "}">>
            ELSE /\ Len(ls) = N + 2
                 /\ ls[1] = <<"{">>
                 /\ \A i \in 1..N :
                       /\ ls[i + 1] = Indent(arg.indent_level + 1)
                                        \o format_number(values[i]) \o <<",">>
                       /\ Count(ls[i + 1], ",") = 1
                 /\ ls[N + 2] = Indent(arg.indent_level) \o <<"}">>

\* format_array has returned "{ 1e-05 }" for a 1-element array at
\* indentation level 2
C7_Witness ==
    /\ fn = "format_array" /\ ret.done
    /\ Len(arg.values) = 1
    /\ arg.indent_level = 2
    /\ ret.value = <<"{", " ", "1", "e", "-", "0", "5", " ", "}">>

(***************************************************************************)
(* infer_architecture applied to every list of at most MaxLayers matrices. *)
(***************************************************************************)
InitArch ==
    /\ MainIdle
    /\ fn = "infer_architecture"
    /\ arg \in [weights : WeightLists]
    /\ ret = NotCalled
    /\ loaded = NotCalled

CallInferArchitecture ==
    /\ fn = "infer_architecture"
    /\ ~ret.done
    /\ ret' = Called(infer_architecture(arg.weights))
    /\ UNCHANGED <<fn, arg, loaded>>
    /\ UNCHANGED mainVars

NextArch == CallInferArchitecture

SpecArch == InitArch /\ [][NextArch]_vars

\* C5: for every non-empty list of non-empty weight matrices,
\* infer_architecture returns a sequence of length (number of layers + 1)
\* whose first element is the row count of the first matrix and whose element
\* i + 1 is the length of the first row of matrix i, whether or not the
\* column count of layer i equals the row count of layer i + 1.
C5_Architecture ==
    (/\ fn = "infer_architecture" /\ ret.done
     /\ Len(arg.weights) > 0
     /\ \A i \in 1..Len(arg.weights) : Len(arg.weights[i]) > 0)
    => /\ ret.value.ok
       /\ Len(ret.value.value) = Len(arg.weights) + 1
       /\ ret.value.value[1] = Len(arg.weights[1])
       /\ \A i \in 1..Len(arg.weights) :
             ret.value.value[i + 1] = Len(arg.weights[i][1])

\* infer_architecture has returned [3, 5, 2] for a 3 x 5 matrix followed by a
\* matrix whose row count is not 5
C5_Witness ==
    /\ fn = "infer_architecture" /\ ret.done
    /\ Len(arg.weights) = 2
    /\ Len(arg.weights[1]) = 3
    /\ Len(arg.weights[2]) /= 5
    /\ ret.value.ok
    /\ ret.value.value = <<3, 5, 2>>


(***************************************************************************)
(* The documents json.load may return to main.  The objects on the path    *)
(* nn.nn.network are JSON objects and the fields of the network are arrays *)
(* of arrays of arrays of numbers; what varies is which keys are present   *)
(* and the shape of the weights.                                           *)
(***************************************************************************)
\* the order in which the documents list the network's keys
InputKeyOrder ==
    <<"betas", "biases", "gammas", "running_means", "running_vars", "weights">>

RequiredKeys == {NETWORK_KEY_ORDER[i] : i \in 1..Len(NETWORK_KEY_ORDER)}

\* the matrices of the weights in the documents: empty, 1 x 1, 2 x 2 and a
\* ragged one whose rows have 2 and 1 values
MainMatrices ==
    { <<>>,
      << <<PyFloat(FALSE, <<5>>, 0)>> >>,
      << <<PyInt(FALSE, <<1>>), PyInt(FALSE, <<2>>)>>,
         <<PyInt(FALSE, <<3>>), PyInt(FALSE, <<4>>)>> >>,
      << <<PyInt(FALSE, <<1>>), PyInt(FALSE, <<2>>)>>, <<PyInt(FALSE, <<3>>)>> >> }

MainWeightLists == SeqsUpTo(MainMatrices, MaxMainLayers)

\* the value the documents give a field other than weights
FieldValue(key) ==
    CASE key = "betas" -> << << <<PyInt(FALSE, <<0>>)>> >> >>
      [] key = "biases" -> << << <<PyFloat(TRUE, <<1, 2, 5>>, 1)>> >> >>
      [] key = "gammas" -> << << <<PyInt(FALSE, <<1>>)>> >> >>
      [] key = "running_means" -> << << <<PyFloat(FALSE, <<1>>, -4)>> >> >>
      [] key = "running_vars" -> << << <<PyFloat(FALSE, <<1, 5>>, 301)>> >> >>
      [] key = "extra" -> << << <<PyInt(FALSE, <<7>>)>> >> >>

\* the network object with the keys of S, in the order order, and weights w
NetworkOf(order, S, w) ==
    LET present == SelectSeq(order, LAMBDA k : k \in S)
    IN  [i \in 1..Len(present) |->
            <<present[i],
              IF present[i] = "weights" THEN w ELSE FieldValue(present[i])>>]

MainNetworks ==
    {NetworkOf(InputKeyOrder, S, <<>>) : S \in SUBSET (RequiredKeys \ {"weights"})}
    \cup {NetworkOf(InputKeyOrder, S \cup {"weights"}, w) :
              S \in SUBSET (RequiredKeys \ {"weights"}), w \in MainWeightLists}

Docs ==
    { [meta |-> 0],
      [nn |-> [meta |-> 0]],
      [nn |-> [nn |-> [meta |-> 0]]],
      [nn |-> [nn |-> [version |-> chars("2.0-hinge")]]] }
    \cup {[nn |-> [nn |-> [network |-> n]]] : n \in MainNetworks}
    \cup {[nn |-> [nn |-> [version |-> chars("2.0-hinge"), network |-> n]]] :
              n \in MainNetworks}

(***************************************************************************)
(* Error reports and output lines, as the pieces they are formatted from.  *)
(***************************************************************************)
\* what the interpreter prints for an uncaught exception, before it exits
\* with status 1
Traceback(exc, msg) == <<"Traceback (most recent call last):", exc, msg>>

\* the mutant of MissingNetworkKeyError: the message lists every required
\* key instead of the one that is missing
MissingNetworkKeyError_AllKeys(key) ==
    <<"Error: Missing network key '">> \o NETWORK_KEY_ORDER
        \o <<"' in weights.json">>

\* f"Error: Missing network key '{key}' in weights.json"
MissingNetworkKeyError(key) ==
    <<"Error: Missing network key '", key, "' in weights.json">>

\* the four lines main prints once the file is written
Summary(v, arch) ==
    << <<"Wrote default weights to ", "output_path">>,
       <<"  Architecture: ">> \o <<join(chars(" -> "),
                                      [i \in 1..Len(arch) |-> str(arch[i])])>>,
       <<"  Version: ", v>>,
       <<"  Extracted: ">> \o NETWORK_KEY_ORDER >>

(***************************************************************************)
(* main.                                                                   *)
(***************************************************************************)
OldFile == [exists |-> TRUE, content |-> <<"o", "l", "d">>]

Init ==
    /\ pc = "parse_args"
    /\ data = <<>>
    /\ version = <<>>
    /\ network = <<>>
    /\ architecture = <<>>
    /\ lua_content = <<>>
    /\ evaluated = <<>>
    /\ stderr = <<>>
    /\ stdout = <<>>
    /\ exit_status = -1
    /\ dest0 \in {NoFile, OldFile}
    /\ dest = dest0
    /\ key_index = 1
    /\ fn = "main"
    /\ arg = <<>>
    /\ ret = NotCalled
    /\ loaded = NotCalled

\* sys.exit(status), or the interpreter's exit after an uncaught exception
Exit(status) ==
    /\ pc' = "exited"
    /\ exit_status' = status

\* a step that passes: on to the next one
Pass(step, next) ==
    /\ pc' = next
    /\ evaluated' = Append(evaluated, <<step, "ok">>)
    /\ UNCHANGED <<stderr, exit_status>>

\* the mutant of Fail: sys.exit() without a status, which exits with 0
Fail_NoStatus(step, report) ==
    /\ evaluated' = Append(evaluated, <<step, "fail">>)
    /\ stderr' = Append(stderr, report)
    /\ Exit(0)

\* a step that fails: one report on the error stream, then exit status 1
Fail(step, report) ==
    /\ evaluated' = Append(evaluated, <<step, "fail">>)
    /\ stderr' = Append(stderr, report)
    /\ Exit(1)

\* parser.parse_args(): returns for no argument or one path; prints the help
\* and exits with 0 for -h; prints a usage error and exits with 2 otherwise
ParseArgs ==
    /\ pc = "parse_args"
    /\ \E outcome \in {"ok", "help", "usage"} :
          /\ evaluated' = Append(evaluated, <<"parse_args", outcome>>)
          /\ CASE outcome = "ok" ->
                    /\ pc' = "exists"
                    /\ UNCHANGED <<stderr, stdout, exit_status>>
               [] outcome = "help" ->
                    /\ stdout' = Append(stdout, <<"usage: ", "help">>)
                    /\ Exit(0)
                    /\ UNCHANGED stderr
               [] outcome = "usage" ->
                    /\ stderr' = Append(stderr, <<"usage: ", "error: ">>)
                    /\ Exit(2)
                    /\ UNCHANGED stdout
    /\ UNCHANGED <<data, version, network, architecture, lua_content, dest,
                   dest0, key_index>>
    /\ UNCHANGED fnVars

\* if not os.path.exists(args.input)
CheckExists ==
    /\ pc = "exists"
    /\ \E exists \in BOOLEAN :
          IF exists THEN Pass("exists", "load")
          ELSE Fail("exists", <<"Error: Input file not found: ", "args.input">>)
    /\ UNCHANGED <<data, version, network, architecture, lua_content, stdout,
                   dest, dest0, key_index>>
    /\ UNCHANGED fnVars

\* open(args.input) and json.load(f): open may raise OSError, which nothing
\* catches; a JSONDecodeError is caught and reported
LoadJson ==
    /\ pc = "load"
    /\ \/ /\ Fail("open_input", Traceback("OSError", "args.input"))
          /\ UNCHANGED data
       \/ /\ Fail("json", <<"Error: Invalid JSON in ", "args.input", ": ", "e">>)
          /\ UNCHANGED data
       \/ \E d \in Docs :
             /\ data' = d
             /\ Pass("json", "nn")
    /\ UNCHANGED <<version, network, architecture, lua_content, stdout, dest,
                   dest0, key_index>>
    /\ UNCHANGED fnVars

\* if "nn" not in data
CheckNn ==
    /\ pc = "nn"
    /\ IF "nn" \notin DOMAIN data
       THEN Fail("nn", <<"Error: Missing 'nn' key in weights.json">>)
       ELSE Pass("nn", "nn.nn")
    /\ UNCHANGED <<data, version, network, architecture, lua_content, stdout,
                   dest, dest0, key_index>>
    /\ UNCHANGED fnVars

\* if "nn" not in data["nn"]
CheckNnNn ==
    /\ pc = "nn.nn"
    /\ IF "nn" \notin DOMAIN data.nn
       THEN Fail("nn.nn", <<"Error: Missing 'nn.nn' key in weights.json">>)
       ELSE Pass("nn.nn", "nn.nn.version")
    /\ UNCHANGED <<data, version, network, architecture, lua_content, stdout,
                   dest, dest0, key_index>>
    /\ UNCHANGED fnVars

\* if "version" not in nn_data, else version = nn_data["version"]
CheckVersion ==
    /\ pc = "nn.nn.version"
    /\ LET nn_data == data.nn.nn
       IN  IF "version" \notin DOMAIN nn_data
           THEN /\ Fail("nn.nn.version",
                        <<"Error: Missing 'nn.nn.version' in weights.json">>)
                /\ UNCHANGED version
           ELSE /\ Pass("nn.nn.version", "nn.nn.network")
                /\ version' = nn_data.version
    /\ UNCHANGED <<data, network, architecture, lua_content, stdout, dest,
                   dest0, key_index>>
    /\ UNCHANGED fnVars

\* if "network" not in nn_data, else network = nn_data["network"]
CheckNetwork ==
    /\ pc = "nn.nn.network"
    /\ LET nn_data == data.nn.nn
       IN  IF "network" \notin DOMAIN nn_data
           THEN /\ Fail("nn.nn.network",
                        <<"Error: Missing 'nn.nn.network' in weights.json">>)
                /\ UNCHANGED network
           ELSE /\ Pass("nn.nn.network", "keys")
                /\ network' = nn_data.network
    /\ UNCHANGED <<data, version, architecture, lua_content, stdout, dest,
                   dest0, key_index>>
    /\ UNCHANGED fnVars

\* one iteration of: for key in NETWORK_KEY_ORDER: if key not in network
CheckNetworkKey ==
    /\ pc = "keys"
    /\ LET key == NETWORK_KEY_ORDER[key_index]
       IN  IF ~HasKey(network, key)
           THEN /\ Fail(key, MissingNetworkKeyError(key))
                /\ UNCHANGED key_index
           ELSE /\ Pass(key, IF key_index = Len(NETWORK_KEY_ORDER)
                             THEN "infer" ELSE "keys")
                /\ key_index' = key_index + 1
    /\ UNCHANGED <<data, version, network, architecture, lua_content, stdout,
                   dest, dest0>>
    /\ UNCHANGED fnVars

\* the mutant of InferArchitecture: the output file is opened for writing
\* before the architecture is inferred
InferArchitecture_OpenFirst ==
    /\ pc = "infer"
    /\ dest' = [exists |-> TRUE, content |-> <<>>]
    /\ LET r == infer_architecture(Get(network, "weights"))
       IN  IF r.ok
           THEN /\ Pass("infer_architecture", "generate")
                /\ architecture' = r.value
           ELSE /\ Fail("infer_architecture", Traceback(r.exc, r.msg))
                /\ UNCHANGED architecture
    /\ UNCHANGED <<data, version, network, lua_content, stdout, dest0,
                   key_index>>
    /\ UNCHANGED fnVars

\* architecture = infer_architecture(network["weights"]); what it raises is
\* not caught
InferArchitecture ==
    /\ pc = "infer"
    /\ LET r == infer_architecture(Get(network, "weights"))
       IN  IF r.ok
           THEN /\ Pass("infer_architecture", "generate")
                /\ architecture' = r.value
           ELSE /\ Fail("infer_architecture", Traceback(r.exc, r.msg))
                /\ UNCHANGED architecture
    /\ UNCHANGED <<data, version, network, lua_content, stdout, dest, dest0,
                   key_index>>
    /\ UNCHANGED fnVars

\* lua_content = generate_lua(version, network, architecture)
GenerateLua ==
    /\ pc = "generate"
    /\ lua_content' = generate_lua(version, network, architecture)
    /\ Pass("generate_lua", "open")
    /\ UNCHANGED <<data, version, network, architecture, stdout, dest, dest0,
                   key_index>>
    /\ UNCHANGED fnVars

\* open(output_path, "w"): truncates or creates the file, or raises OSError
OpenOutput ==
    /\ pc = "open"
    /\ \/ /\ Pass("open_output", "write")
          /\ dest' = [exists |-> TRUE, content |-> <<>>]
       \/ /\ Fail("open_output", Traceback("OSError", "output_path"))
          /\ UNCHANGED dest
    /\ UNCHANGED <<data, version, network, architecture, lua_content, stdout,
                   dest0, key_index>>
    /\ UNCHANGED fnVars

\* f.write(lua_content) and the close of the with block: the whole text
\* reaches the file, or OSError is raised with part of it written
WriteOutput ==
    /\ pc = "write"
    /\ \/ /\ Pass("write_output", "summary")
          /\ dest' = [dest EXCEPT !.content = lua_content]
       \/ /\ Fail("write_output", Traceback("OSError", "output_path"))
          /\ \E n \in {0, Len(lua_content) \div 2} :
                dest' = [dest EXCEPT !.content = SubSeq(lua_content, 1, n)]
    /\ UNCHANGED <<data, version, network, architecture, lua_content, stdout,
                   dest0, key_index>>
    /\ UNCHANGED fnVars

\* the four print calls, after which main returns
PrintSummary ==
    /\ pc = "summary"
    /\ stdout' = stdout \o Summary(version, architecture)
    /\ evaluated' = Append(evaluated, <<"summary", "ok">>)
    /\ Exit(0)
    /\ UNCHANGED <<data, version, network, architecture, lua_content, stderr,
                   dest, dest0, key_index>>
    /\ UNCHANGED fnVars

Next ==
    \/ ParseArgs
    \/ CheckExists
    \/ LoadJson
    \/ CheckNn
    \/ CheckNnNn
    \/ CheckVersion
    \/ CheckNetwork
    \/ CheckNetworkKey
    \/ InferArchitecture
    \/ GenerateLua
    \/ OpenOutput
    \/ WriteOutput
    \/ PrintSummary

Spec == Init /\ [][Next]_vars


(***************************************************************************)
(* Properties of main.                                                     *)
(***************************************************************************)
Exited == pc = "exited"

StepNames == [i \in 1..Len(evaluated) |-> evaluated[i][1]]

Passed(step) == \E i \in 1..Len(evaluated) : evaluated[i] = <<step, "ok">>

LastStep == evaluated[Len(evaluated)]

\* the file holds the whole generated text
FullyWritten ==
    /\ Len(lua_content) > 0
    /\ dest = [exists |-> TRUE, content |-> lua_content]

\* the six required keys, as lines 18-25 list them
SixKeys ==
    <<"running_vars", "running_means", "weights", "betas", "gammas", "biases">>

\* the steps that must have succeeded before the output is opened
ValidationSteps ==
    <<"exists", "json", "nn", "nn.nn", "nn.nn.version", "nn.nn.network">>
        \o SixKeys \o <<"infer_architecture", "generate_lua">>

\* the loaded document has the whole path nn.nn.version / nn.nn.network
HasVersionAndNetwork ==
    /\ "nn" \in DOMAIN data
    /\ "nn" \in DOMAIN data.nn
    /\ "version" \in DOMAIN data.nn.nn
    /\ "network" \in DOMAIN data.nn.nn

\* the required keys the loaded document's network lacks
MissingKeys ==
    {k \in {SixKeys[i] : i \in 1..6} : ~HasKey(data.nn.nn.network, k)}

\* the required keys a report names, one entry per mention
KeysNamed(report) ==
    SelectSeq(report, LAMBDA p : p \in {SixKeys[i] : i \in 1..6})

\* C1: the destination file is changed only after every validation step,
\* infer_architecture and generate_lua have succeeded, and a run that fails
\* at one of those steps leaves the file exactly as it was.
C1_NoPartialWrites ==
    /\ (dest /= dest0) =>
          /\ \A i \in 1..Len(ValidationSteps) : Passed(ValidationSteps[i])
          /\ HasVersionAndNetwork
          /\ MissingKeys = {}
          /\ lua_content = generate_lua(version, network, architecture)
    /\ (/\ Exited
        /\ \E i \in 1..Len(ValidationSteps) :
              LastStep = <<ValidationSteps[i], "fail">>)
       => dest = dest0

\* a run has replaced an existing file after passing every step
C1_Witness ==
    /\ Exited
    /\ dest0 = OldFile
    /\ FullyWritten
    /\ \A i \in 1..Len(ValidationSteps) : Passed(ValidationSteps[i])

\* C2, as stated: every run ends with exit status 0 or 1, and 0 exactly when
\* the output file was written.
C2_Original ==
    Exited => /\ exit_status \in {0, 1}
              /\ (exit_status = 0) <=> FullyWritten

\* C2, amended: every run ends, with exit status 0, 1 or 2; 2 exactly when
\* the argument parser rejects the command line, 0 exactly when the output
\* file was written or the help was asked for, and 1 for every validation or
\* I/O failure.  (A run that has not ended can take a step; at the call of
\* generate_lua, which has no condition, this is not evaluated.)
C2_ExitStatus ==
    /\ ~Exited => /\ exit_status = -1
                  /\ pc = "generate" \/ ENABLED Next
    /\ Exited =>
          /\ exit_status \in {0, 1, 2}
          /\ (exit_status = 2) <=> (evaluated[1] = <<"parse_args", "usage">>)
          /\ (exit_status = 0) <=>
                (FullyWritten \/ evaluated[1] = <<"parse_args", "help">>)
          /\ (exit_status = 1) <=> (LastStep[2] = "fail")
          /\ FullyWritten => evaluated[1] = <<"parse_args", "ok">>

\* a run has ended with status 2: the command line was rejected
C2_Witness ==
    /\ Exited
    /\ exit_status = 2
    /\ evaluated = << <<"parse_args", "usage">> >>
    /\ dest = dest0

\* C3: when nn.nn.version and nn.nn.network are present and a required
\* network key is absent, main reports one error naming exactly one key, a
\* key that is missing, exits with status 1 and writes nothing; an input
\* missing only biases is reported as missing biases.
C3_MissingKey ==
    (Exited /\ HasVersionAndNetwork /\ MissingKeys /= {}) =>
        /\ exit_status = 1
        /\ Len(stderr) = 1
        /\ Len(KeysNamed(stderr[1])) = 1
        /\ KeysNamed(stderr[1])[1] \in MissingKeys
        /\ (MissingKeys = {"biases"} => KeysNamed(stderr[1]) = <<"biases">>)
        /\ dest = dest0
        /\ lua_content = <<>>

\* a run on a document missing only biases has ended
C3_Witness ==
    /\ Exited
    /\ HasVersionAndNetwork
    /\ MissingKeys = {"biases"}
    /\ stderr = << <<"Error: Missing network key '", "biases",
                     "' in weights.json">> >>

\* C4: when the input passes all key checks and network.weights is an empty
\* list, infer_architecture fails with "No weight matrices found", the error
\* is reported on the error stream, generate_lua is never called and no
\* output file is written.
C4_EmptyWeights ==
    (/\ Exited /\ HasVersionAndNetwork /\ MissingKeys = {}
     /\ Get(data.nn.nn.network, "weights") = <<>>)
    => /\ LastStep = <<"infer_architecture", "fail">>
       /\ stderr = <<Traceback("ValueError", "No weight matrices found")>>
       /\ "generate_lua" \notin {StepNames[i] : i \in 1..Len(StepNames)}
       /\ lua_content = <<>>
       /\ "open_output" \notin {StepNames[i] : i \in 1..Len(StepNames)}
       /\ dest = dest0
       /\ exit_status = 1

\* a run on a complete document with an empty weights list has ended, with
\* an existing destination file
C4_Witness ==
    /\ Exited /\ HasVersionAndNetwork /\ MissingKeys = {}
    /\ Get(data.nn.nn.network, "weights") = <<>>
    /\ dest0 = OldFile

\* C9, as stated: whenever the output file is written, every layer's weight
\* matrix is non-empty and rectangular.
C9_Rectangular ==
    FullyWritten =>
        \A i \in 1..Len(Get(network, "weights")) :
            LET matrix == Get(network, "weights")[i]
            IN  Len(matrix) > 0 /\ IsRectangular(matrix)

\* the checks of main, in the order of lines 138-182; the last one is the
\* test of the weights list at the top of infer_architecture
CheckOrder ==
    <<"exists", "json", "nn", "nn.nn", "nn.nn.version", "nn.nn.network">>
        \o SixKeys \o <<"infer_architecture">>

IsCheck(step) == \E i \in 1..Len(CheckOrder) : CheckOrder[i] = step

\* the checks evaluated so far, in order
ChecksEvaluated == SelectSeq(StepNames, IsCheck)

\* the error each check reports when it fails
ReportFor(check) ==
    CASE check = "exists" -> <<"Error: Input file not found: ", "args.input">>
      [] check = "json" -> <<"Error: Invalid JSON in ", "args.input", ": ", "e">>
      [] check = "nn" -> <<"Error: Missing 'nn' key in weights.json">>
      [] check = "nn.nn" -> <<"Error: Missing 'nn.nn' key in weights.json">>
      [] check = "nn.nn.version" ->
            <<"Error: Missing 'nn.nn.version' in weights.json">>
      [] check = "nn.nn.network" ->
            <<"Error: Missing 'nn.nn.network' in weights.json">>
      [] check = "infer_architecture" ->
            <<"Traceback (most recent call last):", "ValueError",
              "No weight matrices found">>
      [] OTHER -> <<"Error: Missing network key '", check, "' in weights.json">>

\* the earliest check of CheckOrder that the loaded document fails, "none"
\* when it passes them all
FirstFailing ==
    IF "nn" \notin DOMAIN data THEN "nn"
    ELSE IF "nn" \notin DOMAIN data.nn THEN "nn.nn"
    ELSE IF "version" \notin DOMAIN data.nn.nn THEN "nn.nn.version"
    ELSE IF "network" \notin DOMAIN data.nn.nn THEN "nn.nn.network"
    ELSE IF MissingKeys /= {}
    THEN SixKeys[CHOOSE i \in 1..6 :
                    /\ SixKeys[i] \in MissingKeys
                    /\ \A j \in 1..(i - 1) : SixKeys[j] \notin MissingKeys]
    ELSE IF Get(data.nn.nn.network, "weights") = <<>> THEN "infer_architecture"
    ELSE "none"

SummaryPrinted ==
    \E i \in 1..Len(stdout) : stdout[i][1] = "Wrote default weights to "

\* C10, as stated: every failing run reports exactly one error, the one for
\* the earliest failing check of the fixed order (stated here for the runs
\* whose command line was accepted).
C10_Original ==
    (Exited /\ exit_status /= 0 /\ evaluated[1] = <<"parse_args", "ok">>) =>
        /\ Len(stderr) = 1
        /\ IsCheck(LastStep[1])
        /\ stderr[1] = ReportFor(LastStep[1])

\* C10, amended: main evaluates its checks in the fixed order (file exists,
\* JSON parses, nn, nn.nn, nn.nn.version, nn.nn.network, the six network keys
\* in the order of NETWORK_KEY_ORDER, weights list non-empty) and stops at
\* the first one that fails; a run in which one of these checks fails
\* reports exactly one error, the one of the earliest failing check, and
\* evaluates no later check; a run that fails elsewhere (command line
\* rejected, input cannot be opened, empty weight matrix, output cannot be
\* opened or written) reports exactly one error too, which is none of the
\* checks' errors; the success summary is printed only after the output file
\* has been written.
C10_CheckOrder ==
    /\ ChecksEvaluated = SubSeq(CheckOrder, 1, Len(ChecksEvaluated))
    /\ \A i \in 1..(Len(evaluated) - 1) : evaluated[i][2] = "ok"
    /\ Len(stderr) <= 1
    /\ (Exited /\ exit_status /= 0) => Len(stderr) = 1
    /\ (Exited /\ LastStep[2] = "fail" /\ LastStep[1] \in {"exists", "json"})
          => stderr = <<ReportFor(LastStep[1])>>
    /\ (Exited /\ Passed("json") /\ FirstFailing /= "none") =>
          /\ LastStep = <<FirstFailing, "fail">>
          /\ stderr = <<ReportFor(FirstFailing)>>
          /\ exit_status = 1
    /\ (Exited /\ exit_status /= 0 /\ Passed("json") /\ FirstFailing = "none") =>
          \A i \in 1..Len(CheckOrder) : stderr[1] /= ReportFor(CheckOrder[i])
    /\ SummaryPrinted => FullyWritten

\* a run has stopped at the check of gammas, the fifth key of the order, on a
\* document that also lacks biases, the sixth
C10_Witness ==
    /\ Exited
    /\ HasVersionAndNetwork
    /\ MissingKeys = {"gammas", "biases"}
    /\ LastStep = <<"gammas", "fail">>
    /\ Len(evaluated) = 12

(***************************************************************************)
(* A consumer of the generated file: a reader of the Lua subset the file   *)
(* is written in (short comments, return, table constructors with          *)
(* positional, name = and ["key"] = fields, double-quoted strings with     *)
(* backslash escapes, decimal numerals with an optional sign, fraction and *)
(* exponent).  Every value it yields is a record of the same five fields.  *)
(***************************************************************************)
\* a numeric value: 0.d1...dn * 10^decpt with d1 and dn non-zero; zero is
\* the empty digit string
NoNum == [neg |-> FALSE, digits |-> <<>>, decpt |-> 0]

LNil == [kind |-> "nil", num |-> NoNum, str |-> <<>>, array |-> <<>>,
         named |-> <<>>]
LError == [LNil EXCEPT !.kind = "error"]
LNum(n) == [LNil EXCEPT !.kind = "number", !.num = n]
LStr(s) == [LNil EXCEPT !.kind = "string", !.str = s]
LTable(array, named) ==
    [LNil EXCEPT !.kind = "table", !.array = array, !.named = named]

RECURSIVE StripLeadingZeros(_, _)
\* <<digits, decpt>> without the leading zeros of digits
StripLeadingZeros(ds, decpt) ==
    IF ds /= <<>> /\ Head(ds) = 0 THEN StripLeadingZeros(Tail(ds), decpt - 1)
    ELSE <<ds, decpt>>

RECURSIVE StripTrailingZeros(_)
StripTrailingZeros(ds) ==
    IF ds /= <<>> /\ ds[Len(ds)] = 0
    THEN StripTrailingZeros(SubSeq(ds, 1, Len(ds) - 1))
    ELSE ds

\* the numeric value with digit string ds and decimal point after position
\* decpt
Canonical(neg, ds, decpt) ==
    LET s == StripLeadingZeros(ds, decpt)
        d == StripTrailingZeros(s[1])
    IN  [neg |-> neg, digits |-> d, decpt |-> IF d = <<>> THEN 0 ELSE s[2]]

\* the numeric value of a number json.load yielded
NumVal(x) == Canonical(x.neg, x.digits, x.decpt)

Digits == {"0", "1", "2", "3", "4", "5", "6", "7", "8", "9"}
Letters ==
    {"a", "b", "c", "d", "e", "f", "g", "h", "i", "j", "k", "l", "m", "n", "o",
     "p", "q", "r", "s", "t", "u", "v", "w", "x", "y", "z", "A", "B", "C", "D",
     "E", "F", "G", "H", "I", "J", "K", "L", "M", "N", "O", "P", "Q", "R", "S",
     "T", "U", "V", "W", "X", "Y", "Z", "_"}

DigitValue(c) == CHOOSE d \in 0..9 : DigitChar(d) = c

\* the character at position i, "" past the end
At(t, i) == IF i >= 1 /\ i <= Len(t) THEN t[i] ELSE ""

RECURSIVE SkipLine(_, _)
\* the position after the end of the line position i is on
SkipLine(t, i) ==
    IF i > Len(t) THEN i
    ELSE IF t[i] = NL THEN i + 1
    ELSE SkipLine(t, i + 1)

RECURSIVE SkipSpace(_, _)
\* the position of the first character at or after i that is neither white
\* space nor inside a comment
SkipSpace(t, i) ==
    IF i > Len(t) THEN i
    ELSE IF t[i] = " " \/ t[i] = NL THEN SkipSpace(t, i + 1)
    ELSE IF t[i] = "-" /\ At(t, i + 1) = "-" THEN SkipSpace(t, SkipLine(t, i))
    ELSE i

RECURSIVE EndOfRun(_, _, _)
\* the position after the run of characters of set S that starts at i
EndOfRun(t, i, S) ==
    IF At(t, i) \in S THEN EndOfRun(t, i + 1, S) ELSE i

RECURSIVE NatOf(_, _)
\* the number a digit string denotes, acc being the digits read so far
NatOf(ds, acc) ==
    IF ds = <<>> THEN acc ELSE NatOf(Tail(ds), 10 * acc + Head(ds))

DigitValues(t, i, j) == [k \in 1..(j - i) |-> DigitValue(t[i + k - 1])]

Parsed(v, i) == [ok |-> TRUE, val |-> v, pos |-> i]
Failed == [ok |-> FALSE, val |-> LError, pos |-> 0]

\* the numeral that starts at i
ReadNumber(t, i, neg) ==
    LET intEnd == EndOfRun(t, i, Digits)
        fracStart == IF At(t, intEnd) = "." THEN intEnd + 1 ELSE intEnd
        fracEnd == EndOfRun(t, fracStart, Digits)
        hasExp == At(t, fracEnd) \in {"e", "E"}
        expNeg == hasExp /\ At(t, fracEnd + 1) = "-"
        expStart == IF ~hasExp THEN fracEnd
                    ELSE IF At(t, fracEnd + 1) \in {"+", "-"} THEN fracEnd + 2
                    ELSE fracEnd + 1
        expEnd == EndOfRun(t, expStart, Digits)
        e == NatOf(DigitValues(t, expStart, expEnd), 0)
        ds == DigitValues(t, i, intEnd) \o DigitValues(t, fracStart, fracEnd)
    IN  IF ds = <<>> \/ (hasExp /\ expEnd = expStart)
           \/ At(t, expEnd) \in Letters
        THEN Failed
        ELSE Parsed(LNum(Canonical(neg, ds,
                                   (intEnd - i) + (IF expNeg THEN -e ELSE e))),
                    expEnd)

RECURSIVE ReadString(_, _, _)
\* the rest of a double-quoted string whose characters up to i are acc
ReadString(t, i, acc) ==
    IF i > Len(t) \/ t[i] = NL THEN Failed
    ELSE IF t[i] = "\"" THEN Parsed(LStr(acc), i + 1)
    ELSE IF t[i] = "\\"
    THEN IF At(t, i + 1) \in {"\"", "\\"}
         THEN ReadString(t, i + 2, Append(acc, t[i + 1]))
         ELSE IF At(t, i + 1) = "n" THEN ReadString(t, i + 2, Append(acc, NL))
         ELSE IF At(t, i + 1) \in {"a", "b", "f", "r", "t", "v"}
         THEN ReadString(t, i + 2, Append(acc, "control"))
         ELSE Failed
    ELSE ReadString(t, i + 1, Append(acc, t[i]))

RECURSIVE ReadExp(_, _)
RECURSIVE ReadFields(_, _, _, _)
RECURSIVE AfterField(_, _, _, _)

\* the expression that starts at or after i; a name is a global variable,
\* and none is set
ReadExp(t, i) ==
    LET j == SkipSpace(t, i)
        c == At(t, j)
    IN  IF c = "{" THEN ReadFields(t, j + 1, <<>>, <<>>)
        ELSE IF c = "\"" THEN ReadString(t, j + 1, <<>>)
        ELSE IF c = "-" THEN ReadNumber(t, SkipSpace(t, j + 1), TRUE)
        ELSE IF c \in Digits \/ c = "." THEN ReadNumber(t, j, FALSE)
        ELSE IF c \in Letters
        THEN Parsed(LNil, EndOfRun(t, j, Letters \cup Digits))
        ELSE Failed

\* the fields of a table constructor from i on, up to its closing brace
ReadFields(t, i, array, named) ==
    LET j == SkipSpace(t, i)
        c == At(t, j)
    IN  IF c = "}" THEN Parsed(LTable(array, named), j + 1)
        ELSE IF c = "["
        THEN LET key == ReadExp(t, j + 1)
                 k == SkipSpace(t, key.pos)
                 eq == SkipSpace(t, k + 1)
                 v == ReadExp(t, eq + 1)
             IN  IF ~key.ok \/ key.val.kind /= "string" THEN Failed
                 ELSE IF At(t, k) /= "]" \/ At(t, eq) /= "=" THEN Failed
                 ELSE IF ~v.ok THEN Failed
                 ELSE AfterField(t, v.pos, array,
                                 Append(named, <<key.val.str, v.val>>))
        ELSE IF c \in Letters
                /\ At(t, SkipSpace(t, EndOfRun(t, j, Letters \cup Digits))) = "="
        THEN LET nameEnd == EndOfRun(t, j, Letters \cup Digits)
                 v == ReadExp(t, SkipSpace(t, nameEnd) + 1)
             IN  IF ~v.ok THEN Failed
                 ELSE AfterField(t, v.pos, array,
                                 Append(named, <<SubSeq(t, j, nameEnd - 1), v.val>>))
        ELSE LET v == ReadExp(t, j)
             IN  IF ~v.ok THEN Failed
                 ELSE AfterField(t, v.pos, Append(array, v.val), named)

\* after a field: a separator and more fields, or the closing brace
AfterField(t, i, array, named) ==
    LET j == SkipSpace(t, i)
    IN  IF At(t, j) = "," THEN ReadFields(t, j + 1, array, named)
        ELSE IF At(t, j) = "}" THEN ReadFields(t, j, array, named)
        ELSE Failed

\* the value the chunk returns: LError when the text is not a chunk of the
\* form "return <expression>"
Load(t) ==
    LET i == SkipSpace(t, 1)
        e == ReadExp(t, i + 6)
    IN  IF i + 5 > Len(t) THEN LError
        ELSE IF SubSeq(t, i, i + 5) /= <<"r", "e", "t", "u", "r", "n">> THEN LError
        ELSE IF ~e.ok THEN LError
        ELSE IF SkipSpace(t, e.pos) /= Len(t) + 1 THEN LError
        ELSE e.val

\* the value of field key of a table, LNil when it has none
Field(tbl, key) ==
    IF \E i \in 1..Len(tbl.named) : tbl.named[i][1] = key
    THEN tbl.named[CHOOSE i \in 1..Len(tbl.named) : tbl.named[i][1] = key][2]
    ELSE LNil

\* what a list of layers of rows of numbers is when read back faithfully
AsLuaRow(row) == LTable([i \in 1..Len(row) |-> LNum(NumVal(row[i]))], <<>>)
AsLuaMatrix(m) == LTable([i \in 1..Len(m) |-> AsLuaRow(m[i])], <<>>)
AsLuaField(f) == LTable([i \in 1..Len(f) |-> AsLuaMatrix(f[i])], <<>>)

(***************************************************************************)
(* generate_lua applied to networks that list their keys in several orders *)
(* and to several version strings, and the text read back.                 *)
(***************************************************************************)
\* "2.0-hinge", "x", and two strings with a character Lua gives a meaning
\* inside a quoted string: a"b and a\b
Versions ==
    { chars("2.0-hinge"), <<"x">>, <<"a", "\"", "b">>, <<"a", "\\", "b">> }

\* the key orders of the networks: the canonical one, the alphabetical one,
\* and two with a key that is not required
KeyOrders ==
    { SixKeys,
      InputKeyOrder,
      <<"extra", "biases", "gammas", "betas", "weights", "running_means",
        "running_vars">>,
      <<"betas", "biases", "gammas", "extra", "running_means", "running_vars",
        "weights">> }

\* 12, -1.25, 1e-05
LuaNumbers ==
    { PyInt(FALSE, <<1, 2>>), PyFloat(TRUE, <<1, 2, 5>>, 1),
      PyFloat(FALSE, <<1>>, -4) }

\* one layer of one row, and the weights lists of main's documents
LuaWeights ==
    { << <<row>> >> : row \in SeqsUpTo(LuaNumbers, MaxLen) \cup SeqsUpTo(Numbers, 1) }
    \cup MainWeightLists

LuaNetworks ==
    { NetworkOf(order, RequiredKeys \cup {"extra"}, w) :
          order \in KeyOrders, w \in LuaWeights }

\* the architecture main would pass for network net, <<>> when
\* infer_architecture raises
ArchitectureOf(net) ==
    LET r == infer_architecture(Get(net, "weights"))
    IN  IF r.ok THEN r.value ELSE <<>>

InitLua ==
    /\ MainIdle
    /\ fn = "generate_lua"
    /\ \E v \in Versions, net \in LuaNetworks :
          arg = [version |-> v, network |-> net,
                 architecture |-> ArchitectureOf(net)]
    /\ ret = NotCalled
    /\ loaded = NotCalled

CallGenerateLua ==
    /\ fn = "generate_lua"
    /\ ~ret.done
    /\ ret' = Called(generate_lua(arg.version, arg.network, arg.architecture))
    /\ UNCHANGED <<fn, arg, loaded>>
    /\ UNCHANGED mainVars

\* the consumer reads the generated text
LoadLua ==
    /\ fn = "generate_lua"
    /\ ret.done
    /\ ~loaded.done
    /\ loaded' = Called(Load(ret.value))
    /\ UNCHANGED <<fn, arg, ret>>
    /\ UNCHANGED mainVars

NextLua ==
    \/ CallGenerateLua
    \/ LoadLua

SpecLua == InitLua /\ [][NextLua]_vars

\* the keys of the lines of text that label a network field (["key"] = ...),
\* in the order of the lines
FieldLabels(text) ==
    LET ls == Lines(text)
        labelled == SelectSeq(ls, LAMBDA l : StartsWith(l, chars("    [\"")))
    IN  [i \in 1..Len(labelled) |->
            SubSeq(labelled[i], 7, EndOfRun(labelled[i], 7, Letters) - 1)]

\* net with exactly the six required keys, in the canonical order
Canonicalized(net) == [i \in 1..6 |-> <<SixKeys[i], Get(net, SixKeys[i])>>]

\* C6: the output of generate_lua lists the six network fields exactly once
\* each, in the order of NETWORK_KEY_ORDER, whatever the order of the keys of
\* the input network; inputs that differ only in key order or in keys beyond
\* the six required ones give byte-identical output (the output for a
\* network is the output for the same fields in canonical order with no
\* other key).
C6_CanonicalOrder ==
    (fn = "generate_lua" /\ ret.done) =>
        /\ FieldLabels(ret.value) = [i \in 1..6 |-> chars(SixKeys[i])]
        /\ ret.value = generate_lua(arg.version, Canonicalized(arg.network),
                                    arg.architecture)

\* generate_lua has returned for a network whose first key is not required
\* and whose required keys are out of order
C6_Witness ==
    /\ fn = "generate_lua" /\ ret.done
    /\ Keys(arg.network)[1] = "extra"
    /\ Keys(arg.network)[2] = "biases"
    /\ Len(Get(arg.network, "weights")) = 2

\* the text was read back as a table holding the version string and, for
\* each of the six fields, the same layers, rows and values in the same order
RoundTrips ==
    LET t == loaded.value
        net == Field(t, chars("network"))
    IN  /\ t.kind = "table"
        /\ Field(t, chars("version")) = LStr(arg.version)
        /\ net.kind = "table"
        /\ \A i \in 1..6 :
              Field(net, chars(SixKeys[i]))
                  = AsLuaField(Get(arg.network, SixKeys[i]))

\* every field of net is a list of matrices, and the weights are a non-empty
\* list of non-empty rectangular matrices
ValidBundle(net) ==
    /\ Len(Get(net, "weights")) > 0
    /\ \A i \in 1..Len(Get(net, "weights")) :
          /\ Len(Get(net, "weights")[i]) > 0
          /\ IsRectangular(Get(net, "weights")[i])

\* C8, as stated: for every valid bundle and version string, the text
\* generate_lua produces reads back as the same version string and, for each
\* of the six fields, the same structure and values.
C8_RoundTrip ==
    (fn = "generate_lua" /\ loaded.done /\ ValidBundle(arg.network))
    => RoundTrips

\* the round trip of the runs whose version string has neither a double
\* quote nor a backslash
C8_RoundTripPlainVersion ==
    (/\ fn = "generate_lua" /\ loaded.done /\ ValidBundle(arg.network)
     /\ \A i \in 1..Len(arg.version) : arg.version[i] \notin {"\"", "\\"})
    => RoundTrips
=============================================================================
